---- MODULE Spec2Model ----
(***************************************************************************)
(* Browser dashboard of the remote-sensing portal: the job pollers of the  *)
(* ROI detail view, the fetch wrapper of module/api.js, the shapefile      *)
(* upload handler and the ROI detail view's talhao selection.              *)
(*                                                                         *)
(* JavaScript runs one handler at a time: every action below is one        *)
(* macrotask (a timer tick, a click, the continuation of an await once the *)
(* awaited response arrived) together with the microtasks it triggers.     *)
(***************************************************************************)
EXTENDS Integers, Sequences, FiniteSets, TLC

\* ------------------------------------------------------------------------
\* Bounds of the model
\* ------------------------------------------------------------------------

\* Status requests of one poller that may be awaiting their response at the
\* same time (setInterval does not wait for the previous async callback).
MaxInFlight == 2

\* The same, when both pollers of a check count their attempts (the product
\* of two attempt counters is what makes that check long).
MaxInFlightPair == 1

\* ------------------------------------------------------------------------
\* Pollers: pollJobStatus, pollDownloadJobStatus (roi-details-manager.js)
\* and pollForFile (roi-manager.js)
\* ------------------------------------------------------------------------

Pollers == {"p1", "p2"}

PollerKinds == {"pollJobStatus", "pollDownloadJobStatus", "pollForFile"}

\* const maxAttempts of pollJobStatus and of pollDownloadJobStatus
maxAttemptsJob == 120
maxAttemptsDownload == 12

HasCeiling(k) == k \in {"pollJobStatus", "pollDownloadJobStatus"}

maxAttempts(k) == IF k = "pollJobStatus" THEN maxAttemptsJob ELSE maxAttemptsDownload

\* The status elements of the detail view a poller writes to.
StatusElements == {"analysisStatusContainer", "geeDownloadStatus",
                   "propertyVarietyDownloadStatus"}

\* pollJobStatus is started by handleAnalysisUpload on analysisStatusContainer;
\* the download and file pollers by the batch button (geeDownloadStatus) or by
\* the variety form (propertyVarietyDownloadStatus).
ElementsOf(k) ==
    IF k = "pollJobStatus" THEN {"analysisStatusContainer"}
    ELSE {"geeDownloadStatus", "propertyVarietyDownloadStatus"}

\* What the awaited status request of a poller can come back with.
\*  pollJobStatus awaits getAnalysisJobStatus (fetchApi): it resolves with the
\*  job JSON, resolves with something that is no job ("nojob": the raw Response
\*  fetchApi returns for a queued retry or a non-JSON body), or rejects.
\*  pollDownloadJobStatus awaits fetch and response.json(): a job JSON, a 404,
\*  another non-OK status ("500"), or a rejection.
\*  pollForFile awaits a HEAD request: ok, not ok, or a rejection.
JobStatuses == {"COMPLETED", "FAILED", "PROCESSING", "PENDING", "UNKNOWN"}

Outcomes(k) ==
    CASE k = "pollJobStatus" -> JobStatuses \cup {"nojob", "reject"}
      [] k = "pollDownloadJobStatus" -> JobStatuses \cup {"404", "500", "reject"}
      [] OTHER -> {"ok", "notok", "reject"}

VARIABLES
    kind,        \* kind[p]: which poller function p is, "none" if p is not used
    elOf,        \* elOf[p]: the statusEl argument of poller p
    timer,       \* timer[p]: "none" (not started), "active", "cleared"
    attempts,    \* attempts[p]: the closure's attempts counter
    inflight,    \* inflight[p]: status requests of p awaiting their response
    issued,      \* issued[p]: status requests p has issued (history)
    downloads,   \* downloads[p]: downloads p has triggered (a.click())
    el,          \* el[e]: innerHTML of status element e
    stop         \* stop[p]: the event at which p's timer was cleared, "none"
                 \* while it was not (history)

pollVars == <<kind, elOf, timer, attempts, inflight, issued, downloads, el, stop>>

\* ------------------------------------------------------------------------
\* API calls: fetchApi, uploadShapefile, requestVarietyDownload (module/api.js)
\* ------------------------------------------------------------------------

Calls == {"c1", "c2", "c3"}

ApiFunctions == {"fetchApi", "uploadShapefile", "requestVarietyDownload"}

\* What a request can come back with: a response with JSON body and status
\* 200, 401 or another non-OK status ("500"), a 200 response whose
\* content-type is not JSON ("200other"), or a network error (fetch rejects).
Responses == {"200", "200other", "401", "500", "neterr"}

VARIABLES
    cfn,           \* cfn[c]: the function call c is a call of, "none" before
    cpc,           \* cpc[c]: where call c stands
                   \*   "idle", "first" (awaits the response to its request),
                   \*   "refresh" (awaits refreshToken), "retry" (awaits the
                   \*   re-sent request), "queued" (in failedQueue), "qretry"
                   \*   (a queued call awaiting its re-sent request),
                   \*   "resolved", "rejected"
    clast,         \* clast[c]: the last response to c's own request
    cresult,       \* cresult[c]: what c resolved with or the error it threw
    isRefreshing,  \* let isRefreshing
    failedQueue,   \* let failedQueue (the calls whose {resolve, reject} it holds)
    logoutBy,      \* the calls that called logout() (history)
    location       \* window.location.href: "dashboard" or "login"

apiVars == <<cfn, cpc, clast, cresult, isRefreshing, failedQueue, logoutBy, location>>

\* ------------------------------------------------------------------------
\* The ROI list (roi-manager.js) and the shapefile upload form (main.js)
\* ------------------------------------------------------------------------

\* const ROIS_PER_PAGE
ROIS_PER_PAGE == 10

\* The values a filter select can have: '' (no filter) or an option.
FilterValues == {"", "A"}

\* The totals the server reports: no ROI, one page, two pages.
Totals == {0, 5, 15}

\* currentPage++ is not bounded by the code; the model stops at MaxPage.
MaxPage == 3

\* List requests that may be awaiting their response at the same time.
MaxListReqs == 2

\* Delete requests (deleteROI) that may be awaiting their response.
MaxDeletes == 1

VARIABLES
    listMarkup,            \* the page has the elements roiTotalCount, roiFilters,
                           \* propertySelect, varietySelect, paginationControls
                           \* (src/static/dashboard.html has none of them)
    currentPage,           \* let currentPage
    currentSearchTerm,     \* let currentSearchTerm (the variety filter)
    currentPropertyFilter, \* let currentPropertyFilter
    listReqs,              \* the list requests awaiting their response, in the
                           \* order they were sent
    roiList,               \* what the element roiList shows
    roiTotalCount,         \* textContent of roiTotalCount
    pagination,            \* paginationControls: hidden, the page shown in
                           \* currentPageSpan, prevPageBtn.disabled,
                           \* nextPageBtn.disabled
    deletes                \* deleteUserROI requests awaiting their response

listVars == <<listMarkup, currentPage, currentSearchTerm, currentPropertyFilter,
              listReqs, roiList, roiTotalCount, pagination, deletes>>

VARIABLES
    form,            \* shapefileForm: "files" (the required inputs are filled)
                     \* or "empty"
    upc,             \* where handleShapefileUpload stands: "idle", "uploading"
                     \* (awaits uploadShapefile), "reloading" (awaits
                     \* loadUserROIs)
    submitDisabled,  \* submitBtn.disabled
    uploadStatus,    \* what the element uploadStatus shows
    handled          \* how the promise of the last call of handleShapefileUpload
                     \* stands: "none", "pending", "fulfilled", "rejected"

uploadVars == <<form, upc, submitDisabled, uploadStatus, handled>>

\* ------------------------------------------------------------------------
\* The ROI detail view: displayROIDetails of roi-manager.js (the one main.js
\* uses) and of roi-details-manager.js
\* ------------------------------------------------------------------------

Implementations == {"roi-manager", "roi-details-manager"}

Talhoes == {"t1", "t2"}

\* Detail views opened in one check.
MaxViews == 2

\* Requests of ROI details (viewROIDetails) awaiting their response.
MaxViewReqs == 1

Views == 1..MaxViews

VARIABLES
    impl,                 \* which module's displayROIDetails the page uses
    view,                 \* "list" or "details": which of roiList and roiDetails
                          \* is not hidden
    opened,               \* calls of displayROIDetails so far; the view the
                          \* page shows is the last one opened
    viewReqs,             \* fetchROIDetails requests awaiting their response
    talhoesSelecionados,  \* talhoesSelecionados[0]: the module-level Set of
                          \* roi-details-manager.js; talhoesSelecionados[v]:
                          \* the Set the call v of roi-manager.js created
    dates,                \* which of geeStartDate, geeEndDate have a value
    loteActions,          \* style.display of the element lote-actions
    btnDisabled,          \* btnDisabled[v]: processarLoteBtn of view v is disabled
    batchReq,             \* batchReq[v]: the ids of the batch request of view v
                          \* awaiting its response, {} if there is none
    geeDownloadStatus,    \* geeDownloadStatus[v]: what the element shows
    lastSelection,        \* the selection of the view the page showed when
                          \* displayROIDetails was last called (history)
    roiMap,               \* let roiMap of roi-manager.js: the view whose map
                          \* it refers to, 0 while it is undefined or null
    viewMap,              \* window.roiMap (roi-manager.js) or let roiMap of
                          \* roi-details-manager.js: the view whose map it
                          \* refers to, 0 while it is undefined or null
    maps                  \* the views whose map instance exists (created and
                          \* not removed)

mapVars == <<roiMap, viewMap, maps>>

viewVars == <<impl, view, opened, viewReqs, talhoesSelecionados, dates,
              loteActions, btnDisabled, batchReq, geeDownloadStatus,
              lastSelection, roiMap, viewMap, maps>>

\* ------------------------------------------------------------------------
\* The load of the dashboard page (main.js)
\* ------------------------------------------------------------------------

VARIABLES
    authCheck,   \* the call checkAuth() of the DOMContentLoaded handler:
                 \* "none" (not made), "pending", "ok" (resolved true),
                 \* "failed" (resolved false, after logout())
    listeners    \* the initialisation steps of the DOMContentLoaded handler
                 \* have run: the event listeners of main.js and
                 \* roi-manager.js are attached

loadVars == <<authCheck, listeners>>

vars == <<pollVars, apiVars, listVars, uploadVars, viewVars, loadVars>>

\* What the handlers of one part of the page leave alone.
notPoll == <<apiVars, listVars, uploadVars, viewVars, loadVars>>
notApi == <<pollVars, listVars, uploadVars, viewVars, loadVars>>
notListUpload == <<pollVars, viewVars, loadVars, cfn, cpc, clast, cresult,
                   isRefreshing, failedQueue>>
notView == <<apiVars, uploadVars, loadVars, listMarkup, currentPage, currentSearchTerm,
             currentPropertyFilter, listReqs, roiList, roiTotalCount, deletes,
             attempts, inflight, issued, downloads, stop>>

\* The pollers that run together in one check: at most one pollJobStatus
\* (its 120 attempts make it the long one), next to a download or file poller
\* or alone; or any two of the download and file pollers.
Populations ==
    { f \in [Pollers -> PollerKinds \cup {"none"}] :
        /\ f["p1"] # "none"
        /\ f["p1"] = "pollJobStatus" => f["p2"] \in {"none", "pollForFile"}
        /\ f["p1"] = "pollForFile" => f["p2"] \in {"none", "pollForFile"}
        /\ f["p2"] # "pollJobStatus" }

InitPoll ==
    /\ kind \in Populations
    /\ elOf \in [Pollers -> StatusElements]
    /\ \A p \in Pollers :
         IF kind[p] = "none" THEN elOf[p] = "geeDownloadStatus"
         ELSE elOf[p] \in ElementsOf(kind[p])
    /\ elOf["p1"] # "propertyVarietyDownloadStatus"
    /\ timer = [p \in Pollers |-> "none"]
    /\ attempts = [p \in Pollers |-> 0]
    /\ inflight = [p \in Pollers |-> 0]
    /\ issued = [p \in Pollers |-> 0]
    /\ downloads = [p \in Pollers |-> 0]
    /\ el = [e \in StatusElements |-> "empty"]
    /\ stop = [p \in Pollers |-> "none"]

\* pollJobStatus(jobId, statusEl) / pollDownloadJobStatus / pollForFile up to
\* setInterval: the "started" message is written and the timer created.
StartPoller(p) ==
    /\ kind[p] # "none"
    /\ timer[p] = "none"
    /\ timer' = [timer EXCEPT ![p] = "active"]
    /\ attempts' = [attempts EXCEPT ![p] = 0]
    /\ el' = [el EXCEPT ![elOf[p]] = "started"]
    /\ UNCHANGED <<kind, elOf, inflight, issued, downloads, stop>>
    /\ UNCHANGED notPoll

InFlightLimit ==
    IF \A q \in Pollers : HasCeiling(kind[q]) THEN MaxInFlightPair ELSE MaxInFlight

\* ++attempts: each call of a poller function has its own counter (a let of
\* the function body, captured by the interval callback).
IncrementedShared(p) == [q \in Pollers |-> attempts[q] + 1]

Incremented(p) == [attempts EXCEPT ![p] = attempts[p] + 1]

\* if (++attempts > maxAttempts), with a the incremented counter
CeilingReachedOffByOne(k, a) == a > maxAttempts(k) + 1

CeilingReached(k, a) == a > maxAttempts(k)

\* The interval callback up to its first await.
\*   if (++attempts > maxAttempts) { clearInterval; timeout message; return }
\*   otherwise the status request is sent.
\* pollForFile has no attempts counter: every tick sends the HEAD request.
Tick(p) ==
    /\ timer[p] = "active"
    /\ IF HasCeiling(kind[p])
       THEN /\ attempts' = Incremented(p)
            /\ IF CeilingReached(kind[p], attempts[p] + 1)
               THEN /\ timer' = [timer EXCEPT ![p] = "cleared"]
                    /\ el' = [el EXCEPT ![elOf[p]] = "timeout"]
                    /\ stop' = [stop EXCEPT ![p] = "timeout"]
                    /\ UNCHANGED <<inflight, issued>>
               ELSE /\ inflight[p] < InFlightLimit
                    /\ inflight' = [inflight EXCEPT ![p] = inflight[p] + 1]
                    /\ issued' = [issued EXCEPT ![p] = issued[p] + 1]
                    /\ UNCHANGED <<timer, el, stop>>
       ELSE /\ inflight[p] < InFlightLimit
            /\ inflight' = [inflight EXCEPT ![p] = inflight[p] + 1]
            /\ UNCHANGED <<attempts, timer, el, issued, stop>>
    /\ UNCHANGED <<kind, elOf, downloads>>
    /\ UNCHANGED notPoll

\* What the callback writes to statusEl after the await, "" for nothing.
\* pollJobStatus renders the job's status text; its catch block and the one
\* of pollDownloadJobStatus render a network error.
Rendered(k, o) ==
    CASE k = "pollJobStatus" ->
           IF o \in JobStatuses THEN "status:" \o o ELSE "neterr"
      [] k = "pollDownloadJobStatus" ->
           CASE o = "COMPLETED" -> "success"
             [] o = "FAILED" -> "failed"
             [] o = "PROCESSING" -> "processing"
             [] o \in {"PENDING", "UNKNOWN"} -> "waiting:" \o o
             [] o = "404" -> ""
             [] o = "500" -> "httperr"
             [] OTHER -> "neterr"
      [] OTHER ->
           CASE o = "ok" -> "success"
             [] o = "notok" -> ""
             [] OTHER -> "fileerr"

\* Whether the callback calls clearInterval(intervalId) after the await.
ClearsNotOnFailed(k, o) ==
    CASE k = "pollJobStatus" -> o \in {"COMPLETED", "nojob", "reject"}
      [] k = "pollDownloadJobStatus" -> o \in {"COMPLETED", "500", "reject"}
      [] OTHER -> o \in {"ok", "reject"}

ClearsNotInCatch(k, o) ==
    CASE k = "pollJobStatus" -> o \in {"COMPLETED", "FAILED"}
      [] k = "pollDownloadJobStatus" -> o \in {"COMPLETED", "FAILED", "500"}
      [] OTHER -> o \in {"ok"}

Clears(k, o) ==
    CASE k = "pollJobStatus" -> o \in {"COMPLETED", "FAILED", "nojob", "reject"}
      [] k = "pollDownloadJobStatus" -> o \in {"COMPLETED", "FAILED", "500", "reject"}
      [] OTHER -> o \in {"ok", "reject"}

\* Whether the callback triggers the file download (a.click()).
Downloads(k, o) ==
    \/ k = "pollDownloadJobStatus" /\ o = "COMPLETED"
    \/ k = "pollForFile" /\ o = "ok"

\* The rest of the interval callback, run when the response to one of the
\* poller's requests arrives. It runs whether or not the timer was cleared
\* in the meantime: clearInterval stops future ticks only.
Respond(p, o) ==
    /\ inflight[p] > 0
    /\ o \in Outcomes(kind[p])
    /\ inflight' = [inflight EXCEPT ![p] = inflight[p] - 1]
    /\ timer' = [timer EXCEPT ![p] = IF Clears(kind[p], o) THEN "cleared" ELSE timer[p]]
    /\ el' = [el EXCEPT ![elOf[p]] =
                 IF Rendered(kind[p], o) = "" THEN el[elOf[p]] ELSE Rendered(kind[p], o)]
    /\ downloads' = [downloads EXCEPT ![p] =
                 IF Downloads(kind[p], o) THEN downloads[p] + 1 ELSE downloads[p]]
    /\ stop' = [stop EXCEPT ![p] =
                 IF Clears(kind[p], o) /\ timer[p] = "active" THEN o ELSE stop[p]]
    /\ UNCHANGED <<kind, elOf, attempts, issued>>
    /\ UNCHANGED notPoll

NextPoll ==
    \/ \E p \in Pollers : StartPoller(p)
    \/ \E p \in Pollers : Tick(p)
    \/ \E p \in Pollers : \E o \in Outcomes(kind[p]) : Respond(p, o)

\* No poller is used (the other parts of the page are checked without them).
NoPollers ==
    /\ kind = [p \in Pollers |-> "none"]
    /\ elOf = [p \in Pollers |-> "geeDownloadStatus"]
    /\ timer = [p \in Pollers |-> "none"]
    /\ attempts = [p \in Pollers |-> 0]
    /\ inflight = [p \in Pollers |-> 0]
    /\ issued = [p \in Pollers |-> 0]
    /\ downloads = [p \in Pollers |-> 0]
    /\ el = [e \in StatusElements |-> "empty"]
    /\ stop = [p \in Pollers |-> "none"]

\* ------------------------------------------------------------------------
\* module/api.js
\* ------------------------------------------------------------------------

InitApi ==
    /\ cfn = [c \in Calls |-> "none"]
    /\ cpc = [c \in Calls |-> "idle"]
    /\ clast = [c \in Calls |-> "none"]
    /\ cresult = [c \in Calls |-> "none"]
    /\ isRefreshing = FALSE
    /\ failedQueue = <<>>
    /\ logoutBy = {}
    /\ location = "dashboard"

\* The elements of a sequence.
Range(q) == {q[i] : i \in 1..Len(q)}

\* A call of fetchApi(url), uploadShapefile(formData) or
\* requestVarietyDownload(...) up to its first await: the request is sent.
ApiStart(c, f) ==
    /\ cpc[c] = "idle"
    /\ cfn' = [cfn EXCEPT ![c] = f]
    /\ cpc' = [cpc EXCEPT ![c] = "first"]
    /\ UNCHANGED <<clast, cresult, isRefreshing, failedQueue, logoutBy, location>>
    /\ UNCHANGED notApi

\* What fetchApi returns or throws for a final response r (lines 67-77).
FinalResult(r) ==
    CASE r = "200" -> "json"
      [] r = "200other" -> "response"
      [] r = "neterr" -> "err:network"
      [] OTHER -> "err:http"

Settled(r) == IF r \in {"200", "200other"} THEN "resolved" ELSE "rejected"

\* fetchApi after await fetch(url): the response (or the rejection) of the
\* first request. On 401 the call either joins failedQueue (a refresh is
\* under way) or sets isRefreshing and sends the refresh request. Whenever
\* the function body is left, by return or by throw, finally resets
\* isRefreshing; returning the queue promise leaves the body.
FetchApiFirst(c, r) ==
    /\ cfn[c] = "fetchApi" /\ cpc[c] = "first"
    /\ clast' = [clast EXCEPT ![c] = r]
    /\ IF r = "401"
       THEN IF isRefreshing
            THEN /\ failedQueue' = Append(failedQueue, c)
                 /\ cpc' = [cpc EXCEPT ![c] = "queued"]
                 /\ isRefreshing' = FALSE
                 /\ UNCHANGED cresult
            ELSE /\ isRefreshing' = TRUE
                 /\ cpc' = [cpc EXCEPT ![c] = "refresh"]
                 /\ UNCHANGED <<failedQueue, cresult>>
       ELSE /\ cpc' = [cpc EXCEPT ![c] = Settled(r)]
            /\ cresult' = [cresult EXCEPT ![c] = FinalResult(r)]
            /\ isRefreshing' = FALSE
            /\ UNCHANGED failedQueue
    /\ UNCHANGED <<cfn, logoutBy, location>>
    /\ UNCHANGED notApi

\* refreshToken(): true once the refresh request was answered, whatever the
\* status of the answer; false when fetch rejected.
refreshToken(r) == r # "neterr"

\* logout(): window.location.href = '/static/login.html'
logout(c) ==
    /\ logoutBy' = logoutBy \cup {c}
    /\ location' = "login"

\* fetchApi after await refreshToken(). Refreshed: processQueue(null) resolves
\* every queued call, whose then-callback re-sends its request, and the
\* refreshing call re-sends its own. Not refreshed: processQueue(error)
\* rejects every queued call, logout() is called and the call throws.
FetchApiRefreshed(c, r) ==
    /\ cfn[c] = "fetchApi" /\ cpc[c] = "refresh"
    /\ r \in {"200", "401", "500", "neterr"}
    /\ failedQueue' = <<>>
    /\ IF refreshToken(r)
       THEN /\ cpc' = [d \in Calls |->
                        IF d = c THEN "retry"
                        ELSE IF d \in Range(failedQueue) THEN "qretry" ELSE cpc[d]]
            /\ UNCHANGED <<cresult, isRefreshing, logoutBy, location>>
       ELSE /\ cpc' = [d \in Calls |->
                        IF d = c \/ d \in Range(failedQueue) THEN "rejected" ELSE cpc[d]]
            /\ cresult' = [d \in Calls |->
                        IF d = c THEN "err:session"
                        ELSE IF d \in Range(failedQueue) THEN "err:queue" ELSE cresult[d]]
            /\ logout(c)
            /\ isRefreshing' = FALSE
    /\ UNCHANGED <<cfn, clast>>
    /\ UNCHANGED notApi

\* fetchApi after the await of the re-sent request (line 59), then lines
\* 67-81: a response that is not ok, a 401 included, throws the error of its
\* body; logout() is not called here.
FetchApiRetried(c, r) ==
    /\ cfn[c] = "fetchApi" /\ cpc[c] = "retry"
    /\ clast' = [clast EXCEPT ![c] = r]
    /\ cpc' = [cpc EXCEPT ![c] = Settled(r)]
    /\ cresult' = [cresult EXCEPT ![c] = FinalResult(r)]
    /\ isRefreshing' = FALSE
    /\ UNCHANGED <<cfn, failedQueue, logoutBy, location>>
    /\ UNCHANGED notApi

\* The then-callback of a queued call returned fetch(url, config): the call
\* resolves with the raw Response of the re-sent request, whatever its
\* status, and rejects only when fetch rejects. The function body was left
\* when the call was queued: nothing of lines 67-81 runs.
FetchApiQueuedRetried(c, r) ==
    /\ cfn[c] = "fetchApi" /\ cpc[c] = "qretry"
    /\ clast' = [clast EXCEPT ![c] = r]
    /\ cpc' = [cpc EXCEPT ![c] = IF r = "neterr" THEN "rejected" ELSE "resolved"]
    /\ cresult' = [cresult EXCEPT ![c] = IF r = "neterr" THEN "err:network" ELSE "raw"]
    /\ UNCHANGED <<cfn, isRefreshing, failedQueue, logoutBy, location>>
    /\ UNCHANGED notApi

\* uploadShapefile and requestVarietyDownload call fetch directly:
\* 401 -> logout() and throw; another status that is not ok -> throw the
\* detail of the body; ok -> the parsed body (response.json() of a body
\* that is no JSON rejects).
DirectResult(r) ==
    CASE r = "200" -> "json"
      [] r = "401" -> "err:session"
      [] r = "500" -> "err:http"
      [] r = "200other" -> "err:parse"
      [] OTHER -> "err:network"

DirectFetched(c, r) ==
    /\ cfn[c] \in {"uploadShapefile", "requestVarietyDownload"} /\ cpc[c] = "first"
    /\ clast' = [clast EXCEPT ![c] = r]
    /\ cpc' = [cpc EXCEPT ![c] = IF r = "200" THEN "resolved" ELSE "rejected"]
    /\ cresult' = [cresult EXCEPT ![c] = DirectResult(r)]
    /\ IF r = "401" THEN logout(c) ELSE UNCHANGED <<logoutBy, location>>
    /\ UNCHANGED <<cfn, isRefreshing, failedQueue>>
    /\ UNCHANGED notApi

NextApi ==
    \/ \E c \in Calls : \E f \in ApiFunctions : ApiStart(c, f)
    \/ \E c \in Calls : \E r \in Responses : FetchApiFirst(c, r)
    \/ \E c \in Calls : \E r \in Responses : FetchApiRefreshed(c, r)
    \/ \E c \in Calls : \E r \in Responses : FetchApiRetried(c, r)
    \/ \E c \in Calls : \E r \in Responses : FetchApiQueuedRetried(c, r)
    \/ \E c \in Calls : \E r \in Responses : DirectFetched(c, r)

\* ------------------------------------------------------------------------
\* roi-manager.js: the ROI list
\* ------------------------------------------------------------------------

\* The list side of the page when nothing of it is under way: the first page
\* of five ROIs is shown.
ListLoaded ==
    /\ listMarkup = TRUE
    /\ currentPage = 1
    /\ currentSearchTerm = ""
    /\ currentPropertyFilter = ""
    /\ listReqs = <<>>
    /\ roiList = <<"rois", 5, 0, "", "">>
    /\ roiTotalCount = 5
    /\ pagination = [hidden |-> TRUE, span |-> 1, prevDisabled |-> TRUE,
                     nextDisabled |-> FALSE]
    /\ deletes = 0

\* The list right after DOMContentLoaded: loadUserROIs() was called once and
\* awaits its response; the pagination controls are as the markup has them.
InitList ==
    /\ listMarkup \in BOOLEAN
    /\ currentPage = 1
    /\ currentSearchTerm = ""
    /\ currentPropertyFilter = ""
    /\ listReqs = << [offset |-> 0, limit |-> ROIS_PER_PAGE, variedade |-> "",
                      propriedade |-> "", caller |-> "page"] >>
    /\ roiList = <<"loading">>
    /\ roiTotalCount = 0
    /\ pagination = [hidden |-> FALSE, span |-> 1, prevDisabled |-> TRUE,
                     nextDisabled |-> FALSE]
    /\ deletes = 0

\* The request of a loadUserROIs that takes page * ROIS_PER_PAGE as offset.
ListRequestNextOffset(page, variedade, propriedade, caller) ==
    [offset |-> page * ROIS_PER_PAGE, limit |-> ROIS_PER_PAGE,
     variedade |-> variedade, propriedade |-> propriedade, caller |-> caller]

\* fetchUserROIs(ROIS_PER_PAGE, offset, currentSearchTerm,
\* currentPropertyFilter) as loadUserROIs calls it for the given page.
ListRequest(page, variedade, propriedade, caller) ==
    [offset |-> (page - 1) * ROIS_PER_PAGE, limit |-> ROIS_PER_PAGE,
     variedade |-> variedade, propriedade |-> propriedade, caller |-> caller]

\* loadUserROIs up to its await, with the page and filters the calling
\* handler has just set: 'Carregando' is shown and the request is sent.
LoadStarted(page, variedade, propriedade, caller) ==
    /\ Len(listReqs) < MaxListReqs
    /\ roiList' = <<"loading">>
    /\ listReqs' = Append(listReqs, ListRequest(page, variedade, propriedade, caller))

\* Math.ceil(totalRois / ROIS_PER_PAGE)
TotalPages(totalRois) == (totalRois + ROIS_PER_PAGE - 1) \div ROIS_PER_PAGE

\* updatePaginationControls(totalRois): with the currentPage of the moment it
\* is called.
updatePaginationControls(totalRois) ==
    IF ~listMarkup THEN pagination
    ELSE IF TotalPages(totalRois) > 1
         THEN [hidden |-> FALSE, span |-> currentPage,
               prevDisabled |-> (currentPage = 1),
               nextDisabled |-> (currentPage >= TotalPages(totalRois))]
         ELSE [pagination EXCEPT !.hidden = TRUE]

\* displayROIList(rois) for the page of a request out of total ROIs: the
\* items of the page, 'Nenhuma ROI encontrada' when it has none.
displayROIList(req, total) ==
    LET rest == IF total > req.offset THEN total - req.offset ELSE 0
        n == IF rest > req.limit THEN req.limit ELSE rest
    IN  <<"rois", n, req.offset, req.variedade, req.propriedade>>

\* change of propertySelect
PropertyChange(v) ==
    /\ listeners
    /\ listMarkup /\ view = "list"
    /\ v # currentPropertyFilter
    /\ currentPropertyFilter' = v
    /\ currentPage' = 1
    /\ LoadStarted(1, currentSearchTerm, v, "page")
    /\ UNCHANGED <<listMarkup, currentSearchTerm, roiTotalCount, pagination, deletes>>
    /\ UNCHANGED <<uploadVars, logoutBy, location, notListUpload>>

\* change of varietySelect
VarietyChange(v) ==
    /\ listeners
    /\ listMarkup /\ view = "list"
    /\ v # currentSearchTerm
    /\ currentSearchTerm' = v
    /\ currentPage' = 1
    /\ LoadStarted(1, v, currentPropertyFilter, "page")
    /\ UNCHANGED <<listMarkup, currentPropertyFilter, roiTotalCount, pagination, deletes>>
    /\ UNCHANGED <<uploadVars, logoutBy, location, notListUpload>>

\* click of nextPageBtn (it can be clicked while shown and not disabled)
NextPage ==
    /\ listeners
    /\ listMarkup /\ ~pagination.hidden /\ ~pagination.nextDisabled
    /\ currentPage < MaxPage
    /\ currentPage' = currentPage + 1
    /\ LoadStarted(currentPage + 1, currentSearchTerm, currentPropertyFilter, "page")
    /\ UNCHANGED <<listMarkup, currentSearchTerm, currentPropertyFilter,
                   roiTotalCount, pagination, deletes>>
    /\ UNCHANGED <<uploadVars, logoutBy, location, notListUpload>>

\* A previous-page handler without its test.
HasPreviousAlways(page) == TRUE

\* if (currentPage > 1) of the previous-page handler
HasPrevious(page) == page > 1

\* click of prevPageBtn
PrevPage ==
    /\ listeners
    /\ listMarkup /\ ~pagination.hidden /\ ~pagination.prevDisabled
    /\ IF HasPrevious(currentPage)
       THEN /\ currentPage' = currentPage - 1
            /\ LoadStarted(currentPage - 1, currentSearchTerm, currentPropertyFilter, "page")
       ELSE UNCHANGED <<currentPage, roiList, listReqs>>
    /\ UNCHANGED <<listMarkup, currentSearchTerm, currentPropertyFilter,
                   roiTotalCount, pagination, deletes>>
    /\ UNCHANGED <<uploadVars, logoutBy, location, notListUpload>>

\* deleteROI up to its await: a delete button of the list was clicked and the
\* user confirmed.
DeleteROI ==
    /\ listeners
    /\ view = "list"
    /\ roiList[1] = "rois" /\ roiList[2] > 0
    /\ deletes < MaxDeletes
    /\ deletes' = deletes + 1
    /\ UNCHANGED <<listMarkup, currentPage, currentSearchTerm, currentPropertyFilter,
                   listReqs, roiList, roiTotalCount, pagination>>
    /\ UNCHANGED <<uploadVars, logoutBy, location, notListUpload>>

\* deleteROI after await deleteUserROI(roiId): loadUserROIs() once the ROI
\* was deleted, an alert only when the request failed.
DeleteAnswered(ok) ==
    /\ deletes > 0
    /\ deletes' = deletes - 1
    /\ IF ok
       THEN LoadStarted(currentPage, currentSearchTerm, currentPropertyFilter, "page")
       ELSE UNCHANGED <<roiList, listReqs>>
    /\ UNCHANGED <<listMarkup, currentPage, currentSearchTerm, currentPropertyFilter,
                   roiTotalCount, pagination>>
    /\ UNCHANGED <<uploadVars, logoutBy, location, notListUpload>>

\* What the awaited fetchUserROIs can come back with: the JSON of the list
\* with its total, something that is no list ("raw": the Response fetchApi
\* returns for a queued retry or a body that is no JSON), or a rejection.
ListOutcomes == {<<"ok", t>> : t \in Totals} \cup {<<"raw">>, <<"reject">>}

\* The sequence q without its i-th element.
RemoveAt(q, i) == SubSeq(q, 1, i - 1) \o SubSeq(q, i + 1, Len(q))

\* ------------------------------------------------------------------------
\* main.js: handleShapefileUpload
\* ------------------------------------------------------------------------

InitUpload ==
    /\ form = "empty"
    /\ upc = "idle"
    /\ submitDisabled = FALSE
    /\ uploadStatus = "empty"
    /\ handled = "none"

\* The end of handleShapefileUpload without its catch block: the error leaves
\* the handler.
HandlerEndNoCatch(error) ==
    [status |-> uploadStatus, disabled |-> FALSE,
     promise |-> IF error = "none" THEN "fulfilled" ELSE "rejected"]

\* The end of handleShapefileUpload, lines 93-98: catch writes the error
\* thrown in the try block (error = "none": nothing was thrown) to
\* uploadStatus, finally enables the submit button, and the handler returns.
HandlerEnd(error) ==
    [status |-> IF error = "none" THEN uploadStatus ELSE error,
     disabled |-> FALSE,
     promise |-> "fulfilled"]

\* handleFileChange: the user chose the files of the form.
ChooseFiles ==
    /\ listeners
    /\ form = "empty"
    /\ form' = "files"
    /\ UNCHANGED <<upc, submitDisabled, uploadStatus, handled>>
    /\ UNCHANGED <<listVars, logoutBy, location, notListUpload>>

\* handleShapefileUpload up to await uploadShapefile(formData): the submit
\* event of a form whose required inputs are filled and whose submit button
\* is enabled.
SubmitShapefile ==
    /\ listeners
    /\ form = "files" /\ ~submitDisabled
    /\ uploadStatus' = "sending"
    /\ submitDisabled' = TRUE
    /\ upc' = "uploading"
    /\ handled' = "pending"
    /\ UNCHANGED form
    /\ UNCHANGED <<listVars, logoutBy, location, notListUpload>>

\* handleShapefileUpload after await uploadShapefile(formData), for the
\* response r of the upload request. Resolved: the success message is shown
\* and loadUserROIs() is called and awaited. Rejected (uploadShapefile calls
\* logout() first when r is a 401): catch and finally.
UploadAnswered(r) ==
    /\ upc = "uploading"
    /\ IF DirectResult(r) = "json"
       THEN /\ uploadStatus' = "success"
            /\ upc' = "reloading"
            /\ LoadStarted(currentPage, currentSearchTerm, currentPropertyFilter, "upload")
            /\ UNCHANGED <<submitDisabled, handled, logoutBy, location>>
       ELSE /\ uploadStatus' = HandlerEnd(DirectResult(r)).status
            /\ submitDisabled' = HandlerEnd(DirectResult(r)).disabled
            /\ handled' = HandlerEnd(DirectResult(r)).promise
            /\ upc' = "idle"
            /\ IF r = "401" THEN logout("uploadShapefile")
               ELSE UNCHANGED <<logoutBy, location>>
            /\ UNCHANGED <<roiList, listReqs>>
    /\ UNCHANGED <<form, listMarkup, currentPage, currentSearchTerm,
                   currentPropertyFilter, roiTotalCount, pagination, deletes>>
    /\ UNCHANGED notListUpload

\* How loadUserROIs settles: its catch block handles every failure of the
\* request, but without the element roiTotalCount both the try and the catch
\* block throw a TypeError and the call rejects.
LoadSettled == IF listMarkup THEN "none" ELSE "err:type"

\* loadUserROIs after await fetchUserROIs(...), for the i-th pending request
\* and its outcome o (responses may arrive in any order); when the call was
\* made by handleShapefileUpload, the rest of that handler: form.reset(), the
\* file infos and the preview cleared, then catch and finally.
ListAnswered(i, o) ==
    /\ i \in 1..Len(listReqs)
    /\ LET req == listReqs[i]
           ok == listMarkup /\ o[1] = "ok"
       IN  /\ listReqs' = RemoveAt(listReqs, i)
           /\ roiList' = IF ok THEN displayROIList(req, o[2]) ELSE <<"error">>
           /\ roiTotalCount' = IF ~listMarkup THEN roiTotalCount
                               ELSE IF ok THEN o[2] ELSE 0
           /\ pagination' = IF ~listMarkup THEN pagination
                            ELSE IF ok THEN updatePaginationControls(o[2])
                            ELSE [pagination EXCEPT !.hidden = TRUE]
           /\ IF req.caller = "upload"
              THEN /\ form' = IF LoadSettled = "none" THEN "empty" ELSE form
                   /\ uploadStatus' = HandlerEnd(LoadSettled).status
                   /\ submitDisabled' = HandlerEnd(LoadSettled).disabled
                   /\ handled' = HandlerEnd(LoadSettled).promise
                   /\ upc' = "idle"
              ELSE UNCHANGED uploadVars
    /\ UNCHANGED <<listMarkup, currentPage, currentSearchTerm,
                   currentPropertyFilter, deletes>>
    /\ UNCHANGED <<logoutBy, location, notListUpload>>

NextList ==
    \/ \E v \in FilterValues : PropertyChange(v)
    \/ \E v \in FilterValues : VarietyChange(v)
    \/ NextPage
    \/ PrevPage
    \/ DeleteROI
    \/ \E ok \in BOOLEAN : DeleteAnswered(ok)
    \/ \E i \in 1..MaxListReqs : \E o \in ListOutcomes : ListAnswered(i, o)
    \/ ChooseFiles
    \/ SubmitShapefile
    \/ \E r \in Responses : UploadAnswered(r)

\* ------------------------------------------------------------------------
\* The ROI detail view
\* ------------------------------------------------------------------------

\* No detail view was opened yet.
InitView ==
    /\ impl \in Implementations
    /\ view = "list"
    /\ opened = 0
    /\ viewReqs = 0
    /\ talhoesSelecionados = [v \in 0..MaxViews |-> {}]
    /\ dates = {}
    /\ loteActions = "none"
    /\ btnDisabled = [v \in Views |-> FALSE]
    /\ batchReq = [v \in Views |-> {}]
    /\ geeDownloadStatus = [v \in Views |-> "empty"]
    /\ lastSelection = {}
    /\ roiMap = 0
    /\ viewMap = 0
    /\ maps = {}

\* The same, on the page as main.js builds it.
NoView == InitView /\ impl = "roi-manager"

\* The Set the handlers of view v use: the module-level one in
\* roi-details-manager.js, the one of its own call in roi-manager.js.
SetOf(v) == IF impl = "roi-details-manager" THEN 0 ELSE v

Selection(v) == talhoesSelecionados[SetOf(v)]

AllDates == {"start", "end"}

\* The poller a started batch download is followed with:
\* pollDownloadJobStatus(result.job_id, ...) in roi-details-manager.js,
\* pollForFile(result.task_details.download_link, ...) in roi-manager.js.
PollerOf == IF impl = "roi-details-manager" THEN "pollDownloadJobStatus" ELSE "pollForFile"

\* viewROIDetails up to its await: a view button of the list was clicked.
ViewROI ==
    /\ listeners
    /\ view = "list"
    /\ roiList[1] = "rois" /\ roiList[2] > 0
    /\ viewReqs < MaxViewReqs
    /\ opened + viewReqs < MaxViews
    /\ viewReqs' = viewReqs + 1
    /\ UNCHANGED <<impl, view, opened, talhoesSelecionados, dates, loteActions,
                   btnDisabled, batchReq, geeDownloadStatus, lastSelection>>
    /\ UNCHANGED <<mapVars, pagination, kind, elOf, timer, el, notView>>

\* displayROIDetails without talhoesSelecionados.clear(): the Set of the
\* view keeps what it holds.
OpenedSelectionKept(v) == talhoesSelecionados[SetOf(v)]

\* The selection of view v when displayROIDetails has opened it:
\* talhoesSelecionados.clear() in roi-details-manager.js, new Set() in
\* roi-manager.js.
OpenedSelection(v) == {}

\* viewROIDetails after await fetchROIDetails(roiId): displayROIDetails(roi)
\* when the request succeeded, an alert when it failed. displayROIDetails
\* hides the list, the filters and the pagination controls, renders the
\* forms of the view anew (empty date inputs, lote-actions not displayed,
\* an enabled button, an empty status element), sets up its handlers,
\* removes the map its map variable refers to and creates the map of the
\* view (window.roiMap in roi-manager.js, the module's roiMap in
\* roi-details-manager.js).
DetailsAnswered(ok) ==
    /\ viewReqs > 0
    /\ viewReqs' = viewReqs - 1
    /\ IF ok
       THEN /\ opened < MaxViews
            /\ opened' = opened + 1
            /\ lastSelection' = IF opened = 0 THEN {} ELSE Selection(opened)
            /\ talhoesSelecionados' =
                 [talhoesSelecionados EXCEPT ![SetOf(opened + 1)] =
                                                OpenedSelection(opened + 1)]
            /\ view' = "details"
            /\ dates' = {}
            /\ loteActions' = "none"
            /\ pagination' = [pagination EXCEPT !.hidden = TRUE]
            /\ viewMap' = opened + 1
            /\ maps' = (maps \ {viewMap}) \cup {opened + 1}
       ELSE UNCHANGED <<opened, lastSelection, talhoesSelecionados, view, dates,
                        loteActions, pagination, viewMap, maps>>
    /\ UNCHANGED <<impl, btnDisabled, batchReq, geeDownloadStatus, roiMap>>
    /\ UNCHANGED <<kind, elOf, timer, el, notView>>

\* click of backToList (roi-manager.js): the list is shown again, the
\* pagination controls are updated, and the map that roiMap of
\* roi-manager.js refers to is removed.
BackToList ==
    /\ listeners
    /\ view = "details"
    /\ view' = "list"
    /\ pagination' = updatePaginationControls(roiTotalCount)
    /\ maps' = maps \ {roiMap}
    /\ roiMap' = 0
    /\ UNCHANGED viewMap
    /\ UNCHANGED <<impl, opened, viewReqs, talhoesSelecionados, dates, loteActions,
                   btnDisabled, batchReq, geeDownloadStatus, lastSelection>>
    /\ UNCHANGED <<kind, elOf, timer, el, notView>>

\* click of the map layer of talhao t: the talhao joins or leaves the
\* selection and atualizarBotaoLote shows lote-actions while the selection
\* is not empty.
LayerClick(t) ==
    /\ view = "details"
    /\ LET s == Selection(opened)
           toggled == IF t \in s THEN s \ {t} ELSE s \cup {t}
       IN  /\ talhoesSelecionados' = [talhoesSelecionados EXCEPT ![SetOf(opened)] = toggled]
           /\ loteActions' = IF toggled # {} THEN "block" ELSE "none"
    /\ UNCHANGED <<impl, view, opened, viewReqs, dates, btnDisabled, batchReq,
                   geeDownloadStatus, lastSelection>>
    /\ UNCHANGED <<mapVars, pagination, kind, elOf, timer, el, notView>>

\* The user sets or empties geeStartDate and geeEndDate.
DateChange(d) ==
    /\ view = "details"
    /\ d # dates
    /\ dates' = d
    /\ UNCHANGED <<impl, view, opened, viewReqs, talhoesSelecionados, loteActions,
                   btnDisabled, batchReq, geeDownloadStatus, lastSelection>>
    /\ UNCHANGED <<mapVars, pagination, kind, elOf, timer, el, notView>>

\* The validation of the batch click without the test of the dates.
BatchValidationNoDates(s, d) == IF s = {} THEN "warning" ELSE "send"

\* The validation at the head of the onclick handler of processarLoteBtn for
\* the selection s and the filled dates d: the message it returns with, or
\* "send".
BatchValidation(s, d) ==
    IF s = {} THEN "warning"
    ELSE IF d # AllDates THEN "error:dates"
    ELSE "send"

\* onclick of processarLoteBtn up to its await. The handler runs for every
\* click event of the button, also for a scripted one while lote-actions is
\* not displayed; a disabled button dispatches none.
BatchClick ==
    /\ view = "details"
    /\ ~btnDisabled[opened]
    /\ LET v == opened
           check == BatchValidation(Selection(v), dates)
       IN  IF check = "send"
           THEN /\ geeDownloadStatus' = [geeDownloadStatus EXCEPT ![v] = "starting"]
                /\ btnDisabled' = [btnDisabled EXCEPT ![v] = TRUE]
                /\ batchReq' = [batchReq EXCEPT ![v] = Selection(v)]
           ELSE /\ geeDownloadStatus' = [geeDownloadStatus EXCEPT ![v] = check]
                /\ UNCHANGED <<btnDisabled, batchReq>>
    /\ UNCHANGED <<impl, view, opened, viewReqs, talhoesSelecionados, dates,
                   loteActions, lastSelection>>
    /\ UNCHANGED <<mapVars, pagination, kind, elOf, timer, el, notView>>

BatchOutcomes == {"ok", "malformed", "reject"}

\* The onclick handler of view v after await startBatchDownloadForIds(...).
\* A well-formed result: the poller is started on the status element, the
\* Set of the view is cleared and lote-actions hidden. A result without job
\* id (download link) or a rejection: the error is shown. finally enables
\* the button of view v.
BatchAnswered(v, o) ==
    /\ batchReq[v] # {}
    /\ batchReq' = [batchReq EXCEPT ![v] = {}]
    /\ btnDisabled' = [btnDisabled EXCEPT ![v] = FALSE]
    /\ IF o = "ok"
       THEN /\ \E p \in Pollers :
                 /\ kind[p] = "none"
                 /\ kind' = [kind EXCEPT ![p] = PollerOf]
                 /\ elOf' = [elOf EXCEPT ![p] = "geeDownloadStatus"]
                 /\ timer' = [timer EXCEPT ![p] = "active"]
            /\ el' = [el EXCEPT !["geeDownloadStatus"] = "started"]
            /\ geeDownloadStatus' = [geeDownloadStatus EXCEPT ![v] = "started"]
            /\ talhoesSelecionados' = [talhoesSelecionados EXCEPT ![SetOf(v)] = {}]
            /\ loteActions' = "none"
       ELSE /\ geeDownloadStatus' = [geeDownloadStatus EXCEPT ![v] = "error:task"]
            /\ UNCHANGED <<kind, elOf, timer, el, talhoesSelecionados, loteActions>>
    /\ UNCHANGED <<impl, view, opened, viewReqs, dates, lastSelection>>
    /\ UNCHANGED <<mapVars, pagination, notView>>

NextView ==
    \/ ViewROI
    \/ \E ok \in BOOLEAN : DetailsAnswered(ok)
    \/ BackToList
    \/ \E t \in Talhoes : LayerClick(t)
    \/ \E d \in SUBSET AllDates : DateChange(d)
    \/ BatchClick
    \/ \E v \in Views : \E o \in BatchOutcomes : BatchAnswered(v, o)

\* ------------------------------------------------------------------------
\* main.js: the DOMContentLoaded handler
\* ------------------------------------------------------------------------

\* The list as the markup has it, before any script ran.
ListMarkup ==
    /\ listMarkup \in BOOLEAN
    /\ currentPage = 1
    /\ currentSearchTerm = ""
    /\ currentPropertyFilter = ""
    /\ listReqs = <<>>
    /\ roiList = <<"loading">>
    /\ roiTotalCount = 0
    /\ pagination = [hidden |-> FALSE, span |-> 1, prevDisabled |-> TRUE,
                     nextDisabled |-> FALSE]
    /\ deletes = 0

\* The page before DOMContentLoaded.
NotLoaded == authCheck = "none" /\ listeners = FALSE

\* The page once its DOMContentLoaded handler has run and the
\* authentication check has succeeded.
Loaded == authCheck = "ok" /\ listeners = TRUE

\* !checkAuth() in the DOMContentLoaded handler of main.js: checkAuth is an
\* async function, its call returns a promise, and the negation of an object
\* is false whatever the promise settles to.
NotCheckAuth == FALSE

\* The DOMContentLoaded handler of main.js: checkAuth() is called (the
\* request of /auth/me is sent); unless !checkAuth() holds, the logout link
\* gets its handler and initPreviewMap(), loadUserROIs(), initializeUI(),
\* setupEventListeners(), setupROIEvents() run.
DOMContentLoaded ==
    /\ authCheck = "none"
    /\ authCheck' = "pending"
    /\ IF NotCheckAuth
       THEN UNCHANGED <<listeners, roiList, listReqs>>
       ELSE /\ listeners' = TRUE
            /\ LoadStarted(currentPage, currentSearchTerm, currentPropertyFilter, "page")
    /\ UNCHANGED <<listMarkup, currentPage, currentSearchTerm, currentPropertyFilter,
                   roiTotalCount, pagination, deletes>>
    /\ UNCHANGED <<pollVars, apiVars, uploadVars, viewVars>>

\* checkAuth after await fetchApi('/auth/me'): true when the call resolved;
\* logout() and false when it rejected.
AuthAnswered(ok) ==
    /\ authCheck = "pending"
    /\ IF ok
       THEN /\ authCheck' = "ok"
            /\ UNCHANGED <<logoutBy, location>>
       ELSE /\ authCheck' = "failed"
            /\ logout("checkAuth")
    /\ UNCHANGED listeners
    /\ UNCHANGED <<pollVars, listVars, uploadVars, viewVars, cfn, cpc, clast,
                   cresult, isRefreshing, failedQueue>>

NextLoad ==
    \/ DOMContentLoaded
    \/ \E ok \in BOOLEAN : AuthAnswered(ok)
    \/ NextList

\* ------------------------------------------------------------------------
\* Specifications
\* ------------------------------------------------------------------------

\* The pollers of the detail view.
InitPollers == InitPoll /\ InitApi /\ ListLoaded /\ InitUpload /\ NoView /\ Loaded

SpecPoll == InitPollers /\ [][NextPoll]_vars

\* Concurrent calls of the API functions.
InitCalls == NoPollers /\ InitApi /\ ListLoaded /\ InitUpload /\ NoView /\ Loaded

SpecApi == InitCalls /\ [][NextApi]_vars

\* The same, when every request is answered in the end: weak fairness of
\* the continuation of each call after each of its awaits.
FairSpecApi ==
    /\ InitCalls
    /\ [][NextApi]_vars
    /\ \A c \in Calls :
         /\ WF_vars(\E r \in Responses : FetchApiFirst(c, r))
         /\ WF_vars(\E r \in Responses : FetchApiRefreshed(c, r))
         /\ WF_vars(\E r \in Responses : FetchApiRetried(c, r))
         /\ WF_vars(\E r \in Responses : FetchApiQueuedRetried(c, r))
         /\ WF_vars(\E r \in Responses : DirectFetched(c, r))

\* The ROI list and the upload form, from DOMContentLoaded on.
InitListPage == InitList /\ InitUpload /\ NoPollers /\ InitApi /\ NoView /\ Loaded

SpecList == InitListPage /\ [][NextList]_vars

\* The ROI detail view, from a loaded list on.
InitDetail == InitView /\ ListLoaded /\ InitUpload /\ NoPollers /\ InitApi /\ Loaded

SpecView == InitDetail /\ [][NextView]_vars

\* The dashboard page from before DOMContentLoaded on.
InitLoad == ListMarkup /\ InitUpload /\ NoPollers /\ InitApi /\ NoView /\ NotLoaded

SpecLoad == InitLoad /\ [][NextLoad]_vars

\* The file pollers alone. setInterval keeps firing an active timer and every
\* request is answered in the end: weak fairness of the tick and of the
\* response of each poller.
InitFile ==
    /\ InitPollers
    /\ \A p \in Pollers : kind[p] \in {"pollForFile", "none"}

FairSpecFile ==
    /\ InitFile
    /\ [][NextPoll]_vars
    /\ \A p \in Pollers :
         /\ WF_vars(StartPoller(p))
         /\ WF_vars(Tick(p))
         /\ WF_vars(\E o \in Outcomes(kind[p]) : Respond(p, o))

\* ------------------------------------------------------------------------
\* Properties of the pollers
\* ------------------------------------------------------------------------

\* A step in which poller p sent a status request.
Sends(p) == inflight'[p] > inflight[p]

\* A cleared timer is never active again and its poller sends nothing more.
StaysCleared(p) ==
    timer[p] = "cleared" => timer'[p] = "cleared" /\ ~Sends(p)

C2_TerminalStatusStops ==
    [][\A p \in Pollers : HasCeiling(kind[p]) =>
          /\ (\E o \in {"COMPLETED", "FAILED"} : Respond(p, o))
                => timer'[p] = "cleared"
          /\ (\E o \in {"PROCESSING", "PENDING", "UNKNOWN"} : Respond(p, o))
                => timer'[p] = timer[p]
          /\ StaysCleared(p)]_vars

C2_Witness ==
    \E p, q \in Pollers :
        /\ HasCeiling(kind[p]) /\ HasCeiling(kind[q])
        /\ stop[p] = "FAILED" /\ timer[p] = "cleared" /\ inflight[p] = 0
        /\ timer[q] = "active" /\ attempts[q] > 1
        /\ el[elOf[q]] \in {"processing", "waiting:PENDING", "waiting:UNKNOWN"}

\* C3: every pollForFile poller whose timer is active eventually has its
\* timer cleared, whatever the responses are.
C3_FilePollerStops ==
    \A p \in Pollers :
        (kind[p] = "pollForFile" /\ timer[p] = "active") ~> (timer[p] = "cleared")

\* C4: pollDownloadJobStatus triggers the download only when it handles a
\* COMPLETED response, and never once the poller was stopped by FAILED, by
\* the timeout, by a non-OK response or by a network error.
C4_DownloadOnlyOnCompleted ==
    [][\A p \in Pollers :
          (kind[p] = "pollDownloadJobStatus" /\ downloads'[p] > downloads[p])
          => /\ Respond(p, "COMPLETED")
             /\ stop[p] \notin {"FAILED", "timeout", "500", "reject"}]_vars

\* C5: pollers are independent. A step changes the timer, the attempt counter
\* and the requests of at most one poller; no attempt counter ever goes back
\* and no cleared timer is active again.
PollerChanged(p) ==
    \/ timer'[p] # timer[p]
    \/ attempts'[p] # attempts[p]
    \/ inflight'[p] # inflight[p]

C5_PollersIndependent ==
    [][\A p, q \in Pollers :
          /\ (p # q /\ PollerChanged(p)) => ~PollerChanged(q)
          /\ timer[p] # "none" => attempts'[p] >= attempts[p]
          /\ timer[p] = "cleared" => timer'[p] = "cleared"]_vars

C5_Witness ==
    \E p, q \in Pollers :
        /\ kind[p] = "pollDownloadJobStatus" /\ kind[q] = "pollDownloadJobStatus"
        /\ stop[p] = "timeout"
        /\ timer[q] = "active" /\ attempts[q] \in 1..3

\* C6: when a status request of a poller rejects, the callback clears the
\* timer and writes an error to the poller's status element, and the poller
\* sends no request afterwards.
C6_NetworkErrorStops ==
    [][\A p \in Pollers :
          /\ Respond(p, "reject")
                => /\ timer'[p] = "cleared"
                   /\ el'[elOf[p]] \in {"neterr", "fileerr"}
          /\ StaysCleared(p)]_vars

C6_Witness ==
    \E p \in Pollers :
        /\ stop[p] = "reject" /\ timer[p] = "cleared"
        /\ attempts[p] > 1
        /\ el[elOf[p]] = "neterr"

\* C18: the download of a job is triggered at most once by its poller
\* (and once a COMPLETED response was handled, exactly once).
C18_DownloadExactlyOnce ==
    \A p \in Pollers :
        kind[p] \in {"pollDownloadJobStatus", "pollForFile"}
        => /\ downloads[p] <= 1
           /\ stop[p] \in {"COMPLETED", "ok"} => downloads[p] >= 1

\* C19: once a poller has cleared its timer, no later step of that poller
\* writes to its status element: the message shown when the timer was
\* cleared stays.
C19_FinalMessageStays ==
    [][\A p \in Pollers :
          (timer[p] = "cleared" /\ \E o \in Outcomes(kind[p]) : Respond(p, o))
          => el'[elOf[p]] = el[elOf[p]]]_vars

\* ------------------------------------------------------------------------
\* Properties of the API calls
\* ------------------------------------------------------------------------

\* C7: every call of fetchApi, uploadShapefile or requestVarietyDownload
\* that is over and whose last response was a 401 has called logout().
C7_Final401LogsOut ==
    \A c \in Calls :
        (cpc[c] \in {"resolved", "rejected"} /\ clast[c] = "401") => c \in logoutBy

\* ------------------------------------------------------------------------
\* Properties of the upload form
\* ------------------------------------------------------------------------

\* The errors uploadShapefile rejects with.
UploadErrors == {DirectResult(r) : r \in Responses} \ {"json"}

\* C8: handleShapefileUpload never rejects, whether uploadShapefile resolves
\* or rejects; when uploadShapefile rejects the handler finishes with the
\* error shown in uploadStatus; the submit button is disabled exactly while
\* the handler is under way and enabled again when it finishes.
C8_UploadFailuresCaught ==
    /\ [](handled # "rejected" /\ (submitDisabled <=> upc # "idle"))
    /\ [][\A r \in Responses :
             (UploadAnswered(r) /\ DirectResult(r) # "json")
             => /\ uploadStatus' = DirectResult(r)
                /\ uploadStatus' \in UploadErrors
                /\ upc' = "idle"]_vars
    /\ [][(upc # "idle" /\ upc' = "idle")
             => (handled' = "fulfilled" /\ ~submitDisabled')]_vars
    /\ [][(handled = "pending" /\ handled' # "pending") => upc' = "idle"]_vars

C8_Witness ==
    /\ handled = "fulfilled" /\ upc = "idle"
    /\ uploadStatus = "err:http"
    /\ form = "files"
    /\ ~submitDisabled

\* ------------------------------------------------------------------------
\* Properties of the detail view
\* ------------------------------------------------------------------------

\* C9: a click of the batch-download button while the selection is empty or
\* a date is missing sends no request (no batch request and no other one),
\* starts no poller, leaves every selection as it was and shows the warning
\* (empty selection) or the error (missing date) in geeDownloadStatus.
C9_InvalidBatchClickSendsNothing ==
    [][(BatchClick /\ (Selection(opened) = {} \/ dates # AllDates))
         => /\ batchReq' = batchReq
            /\ <<viewReqs, listReqs, deletes, inflight, issued, cpc>>'
                  = <<viewReqs, listReqs, deletes, inflight, issued, cpc>>
            /\ <<kind, timer>>' = <<kind, timer>>
            /\ talhoesSelecionados' = talhoesSelecionados
            /\ geeDownloadStatus'[opened] =
                  IF Selection(opened) = {} THEN "warning" ELSE "error:dates"]_vars

C9_Witness ==
    /\ opened = 2 /\ view = "details"
    /\ geeDownloadStatus[1] = "warning"
    /\ geeDownloadStatus[2] = "error:dates"
    /\ Selection(2) # {} /\ loteActions = "block" /\ dates = {"start"}
    /\ \A v \in Views : batchReq[v] = {}
    /\ \A p \in Pollers : kind[p] = "none"

\* C10: whenever displayROIDetails opens a detail view, the selection of
\* the opened view is empty, whatever was selected in the views opened
\* before.
C10_OpenedViewSelectionEmpty ==
    [][opened' # opened
         => /\ opened' = opened + 1
            /\ view' = "details"
            /\ Selection(opened)' = {}]_vars

C10_Witness ==
    /\ impl = "roi-details-manager"
    /\ opened = 2 /\ view = "details"
    /\ lastSelection # {}
    /\ Selection(2) = {}
    /\ geeDownloadStatus[2] = "empty"

\* C11: while the list is shown no detail map exists: the backToList click
\* has removed the map created for the detail view.
C11_NoDetailMapInList == view = "list" => maps = {}

\* ------------------------------------------------------------------------
\* Properties of the ROI list
\* ------------------------------------------------------------------------

\* The request a step has sent: the last one of listReqs after the step.
Sent == listReqs'[Len(listReqs')]

\* C12: every list request is sent with limit 10, offset
\* (currentPage - 1) * 10 and the variety and property filters as they are
\* once the handler that sends it has set them; a filter change sets
\* currentPage to 1 and its request has offset 0 and the new filter value.
C12_ListRequestParameters ==
    /\ [][Len(listReqs') > Len(listReqs)
            => /\ Len(listReqs') = Len(listReqs) + 1
               /\ Sent.limit = 10
               /\ Sent.offset = (currentPage' - 1) * 10
               /\ Sent.variedade = currentSearchTerm'
               /\ Sent.propriedade = currentPropertyFilter']_vars
    /\ [][\A v \in FilterValues :
            /\ PropertyChange(v)
                 => (currentPage' = 1 /\ Sent.offset = 0 /\ Sent.propriedade = v)
            /\ VarietyChange(v)
                 => (currentPage' = 1 /\ Sent.offset = 0 /\ Sent.variedade = v)]_vars

C12_Witness ==
    /\ Len(listReqs) = 2
    /\ listReqs[1].offset = 10 /\ listReqs[1].propriedade = ""
    /\ listReqs[2].offset = 0 /\ listReqs[2].propriedade = "A"
    /\ currentPage = 1 /\ currentPropertyFilter = "A"

\* C17: currentPage is always at least 1; a previous-page click while
\* currentPage is 1 changes nothing and sends no request, and no step takes
\* currentPage below 1.
C17_CurrentPageAtLeastOne ==
    /\ [](currentPage >= 1)
    /\ [][(PrevPage /\ currentPage = 1) => (vars' = vars)]_vars
    /\ [][currentPage' < currentPage
            => (currentPage' >= 1 /\ (currentPage' = 1 \/ PrevPage))]_vars

\* The previous-page button can be clicked while currentPage is 1: page 2
\* of 15 ROIs was shown and a filter change has set currentPage to 1.
C17_Witness ==
    /\ currentPage = 1
    /\ listeners /\ listMarkup
    /\ ~pagination.hidden /\ ~pagination.prevDisabled
    /\ pagination.span = 2
    /\ Len(listReqs) < MaxListReqs

\* C20: once no list request is pending, the list shown is the one of the
\* request sent last, that is of the current page and the current filters.
C20_LatestRequestShown ==
    (listReqs = <<>> /\ roiList[1] = "rois")
    => /\ roiList[3] = (currentPage - 1) * ROIS_PER_PAGE
       /\ roiList[4] = currentSearchTerm
       /\ roiList[5] = currentPropertyFilter

\* The last page of a list of total ROIs: max(1, ceil(total / 10)).
LastPage(total) == IF TotalPages(total) > 1 THEN TotalPages(total) ELSE 1

\* C21: once no list request is pending and the last response reported a
\* total, currentPage is at most the last page of that total.
C21_CurrentPageWithinTotal ==
    (listReqs = <<>> /\ roiList[1] = "rois")
    => currentPage <= LastPage(roiTotalCount)

\* ------------------------------------------------------------------------
\* Properties of the token refresh
\* ------------------------------------------------------------------------

\* The calls whose refresh request (POST /auth/refresh) awaits its response.
Refreshing == {c \in Calls : cpc[c] = "refresh"}

\* C13: at most one refresh request is in flight at any time.
C13_OneRefreshInFlight == Cardinality(Refreshing) <= 1

\* C14: every call of fetchApi that was made is eventually resolved or
\* rejected, a call waiting in failedQueue included.
C14_EveryCallSettles ==
    \A c \in Calls :
        (cfn[c] = "fetchApi" /\ cpc[c] # "idle")
            ~> (cpc[c] \in {"resolved", "rejected"})

\* C15: when the refresh a call is queued behind is over, the queued call
\* re-sends its request if the refresh succeeded (the refresh request was
\* answered 200) and otherwise rejects with the session error without
\* re-sending; a queued call re-sends at no other moment.
C15_QueuedResendOnlyAfterRefresh ==
    [][\A c \in Calls :
          /\ \A d \in Calls : \A r \in Responses :
                (FetchApiRefreshed(d, r) /\ cpc[c] = "queued")
                => IF r = "200" THEN cpc'[c] = "qretry"
                   ELSE cpc'[c] = "rejected" /\ cresult'[c] = "err:queue"
          /\ (cpc[c] = "queued" /\ cpc'[c] = "qretry")
                => \E d \in Calls : FetchApiRefreshed(d, "200")]_vars

\* ------------------------------------------------------------------------
\* Properties of the page load
\* ------------------------------------------------------------------------

\* C16: the initialisation steps of the dashboard have run (listeners are
\* attached, the list was requested) only if the authentication check has
\* succeeded; after a failed check none of them has run.
C16_InitOnlyAfterAuth ==
    (listeners \/ listReqs # <<>> \/ roiList # <<"loading">>) => authCheck = "ok"

====
